---- MODULE Spec2Model ----
(***************************************************************************)
(* Snake Lite (src/main.py): the game state of SnakeGame and its handlers  *)
(* setup, on_update, step_snake, update_level_and_speed, on_key_press and  *)
(* try_set_direction.                                                      *)
(*                                                                         *)
(* Times (move_interval, time_since_move, delta_time) are counted in       *)
(* integer hundredths of a second: 0.20 s is 20, 0.06 s is 6, the 0.02 s   *)
(* step per level is 2.  Grid cells are pairs <<col, row>>, directions are *)
(* pairs <<dx, dy>>, the snake is a sequence of cells with the head first. *)
(***************************************************************************)
EXTENDS Integers, Sequences, FiniteSets

----------------------------------------------------------------------------
(* Bounds of the model.  The window of the source is 800 x 600 pixels      *)
(* (40 x 27 cells); the model keeps the derivation of the grid from the    *)
(* screen size and shrinks the screen to MaxCols x MinRows cells.          *)
MaxCols == 5
(* delta_time values handed to on_update, in hundredths of a second: one   *)
(* below the shortest interval reached, one above twice the longest        *)
DeltaShort == 10
DeltaLong == 45
(* the frame loop stops feeding the snake at this score *)
MaxScore == 5
(* the same for the short games of SpecShort *)
ShortScore == 2
(* number of points scored in the difficulty specification *)
MaxFeed == 110

----------------------------------------------------------------------------
(* The least GRID_ROWS for which setup's randrange(1, GRID_ROWS - 1),     *)
(* line 94, has a value to draw.                                           *)
MinRows == 3

(* Configuration constants, main.py lines 23-33.  As in the source, the    *)
(* playfield height SCREEN_HEIGHT - UI_HEIGHT is half a cell more than a   *)
(* whole number of rows (550 = 27 * 20 + 10).                              *)
CELL_SIZE == 20
UI_HEIGHT == 50
SCREEN_WIDTH == CELL_SIZE * MaxCols
SCREEN_HEIGHT == CELL_SIZE * MinRows + CELL_SIZE \div 2 + UI_HEIGHT
GRID_COLS == SCREEN_WIDTH \div CELL_SIZE
GRID_ROWS == (SCREEN_HEIGHT - UI_HEIGHT) \div CELL_SIZE
MOVE_INTERVAL_START == 20
MOVE_INTERVAL_MIN == 6

(* arcade.key values used by on_key_press; OTHER stands for any other key *)
Keys == {"UP", "DOWN", "LEFT", "RIGHT", "R", "OTHER"}
DeltaTimes == {DeltaShort, DeltaLong}

VARIABLES
    pc,               \* position of main(): "constructed" before window.setup(), then "running"
    score,
    level,
    game_over,
    snake,
    direction,
    next_direction,
    food,
    move_interval,
    time_since_move

vars == <<pc, score, level, game_over, snake, direction, next_direction,
          food, move_interval, time_since_move>>

----------------------------------------------------------------------------
(* Helpers *)
Range(s) == {s[i] : i \in 1..Len(s)}
Max(a, b) == IF a >= b THEN a ELSE b
Min(a, b) == IF a <= b THEN a ELSE b
Neg(d) == <<0 - d[1], 0 - d[2]>>

(* clamp that forgets the lower limit *)
clamp_upper_only(value, min_value, max_value) == Min(value, max_value)

(* clamp, lines 36-38 *)
clamp(value, min_value, max_value) == Max(min_value, Min(value, max_value))

(* cells drawn with randrange(0, GRID_COLS - 1): the last column is never drawn *)
GridCells_short_of_a_column == (0..(GRID_COLS - 2)) \X (0..(GRID_ROWS - 1))

(* range(0, GRID_COLS) x range(0, GRID_ROWS): the cells randrange can draw *)
GridCells == (0..(GRID_COLS - 1)) \X (0..(GRID_ROWS - 1))

(* screen_y of a cell, lines 51-54 (CELL_SIZE / 2 is exact for CELL_SIZE 20) *)
screen_y(pos) == pos[2] * CELL_SIZE + CELL_SIZE \div 2
ui_boundary == SCREEN_HEIGHT - UI_HEIGHT

(* random_grid_position that forgets the excluded cells *)
random_grid_position_any_cell(excluded) ==
    {pos \in GridCells : screen_y(pos) < SCREEN_HEIGHT - UI_HEIGHT}

(* random_grid_position, lines 41-58: the set of cells the retry loop can  *)
(* return; the loop does not return when the set is empty.                 *)
random_grid_position(excluded) ==
    {pos \in GridCells : pos \notin excluded /\ screen_y(pos) < ui_boundary}

(* spawn_food that leaves the head out of the excluded cells *)
spawn_food_ignores_head(s) == random_grid_position(Range(Tail(s)))

(* spawn_food, lines 111-114: the values self.food can get for snake s *)
spawn_food(s) == random_grid_position(Range(s))

(* level that rises one point early *)
updated_level_early(sc, lv) ==
    LET new_level == 1 + ((sc + 1) \div 5)
    IN  IF new_level # lv THEN new_level ELSE lv

(* level computed with the remainder in place of the quotient *)
updated_level_remainder(sc, lv) ==
    LET new_level == 1 + (sc % 5)
    IN  IF new_level # lv THEN new_level ELSE lv

(* update_level_and_speed, lines 213-215: the level after the call *)
updated_level(sc, lv) ==
    LET new_level == 1 + (sc \div 5)
    IN  IF new_level # lv THEN new_level ELSE lv

(* update_level_and_speed, lines 219-222: the interval after the call *)
updated_interval(lv) ==
    LET target_interval == MOVE_INTERVAL_START - (lv - 1) * 2
    IN  clamp(target_interval, MOVE_INTERVAL_MIN, MOVE_INTERVAL_START)

(* wall test that lets the head one cell past the right and top edges *)
in_grid_off_by_one(new_head) ==
    /\ 0 <= new_head[1] /\ new_head[1] <= GRID_COLS
    /\ 0 <= new_head[2] /\ new_head[2] <= GRID_ROWS

(* wall test of step_snake, line 187 *)
in_grid(new_head) ==
    /\ 0 <= new_head[1] /\ new_head[1] < GRID_COLS
    /\ 0 <= new_head[2] /\ new_head[2] < GRID_ROWS

(* self collision test that looks at the head only *)
hits_self_head_only(new_head, s) == new_head = s[1]

(* self collision test that leaves out the tail, which is about to move *)
hits_self_without_tail(new_head, s) ==
    new_head \in Range(SubSeq(s, 1, Len(s) - 1))

(* self collision test of step_snake, line 192 *)
hits_self(new_head, s) == new_head \in Range(s)

(* head + direction with dx and dy swapped *)
next_head_swapped(s, d) == <<s[1][1] + d[2], s[1][2] + d[1]>>

(* head + direction, lines 182-184 *)
next_head(s, d) == <<s[1][1] + d[1], s[1][2] + d[2]>>

----------------------------------------------------------------------------
(* __init__, lines 64-84 *)
Init ==
    /\ pc = "constructed"
    /\ score = 0
    /\ level = 1
    /\ game_over = FALSE
    /\ snake = <<>>
    /\ direction = <<1, 0>>
    /\ next_direction = <<1, 0>>
    /\ food = <<0, 0>>
    /\ move_interval = MOVE_INTERVAL_START
    /\ time_since_move = 0

(* setup that keeps the score of the game before *)
setup_keeps_score ==
    \E start_col \in 2..(GRID_COLS - 3), start_row \in 1..(GRID_ROWS - 2) :
        LET s == << <<start_col, start_row>>,
                    <<start_col - 1, start_row>>,
                    <<start_col - 2, start_row>> >>
        IN  /\ UNCHANGED score
            /\ level' = 1
            /\ game_over' = FALSE
            /\ snake' = s
            /\ direction' = <<1, 0>>
            /\ next_direction' = <<1, 0>>
            /\ food' \in spawn_food(s)
            /\ move_interval' = MOVE_INTERVAL_START
            /\ time_since_move' = 0

(* setup that leaves the pending direction of the game before *)
setup_keeps_pending ==
    \E start_col \in 2..(GRID_COLS - 3), start_row \in 1..(GRID_ROWS - 2) :
        LET s == << <<start_col, start_row>>,
                    <<start_col - 1, start_row>>,
                    <<start_col - 2, start_row>> >>
        IN  /\ score' = 0
            /\ level' = 1
            /\ game_over' = FALSE
            /\ snake' = s
            /\ direction' = <<1, 0>>
            /\ UNCHANGED next_direction
            /\ food' \in spawn_food(s)
            /\ move_interval' = MOVE_INTERVAL_START
            /\ time_since_move' = 0

(* setup, lines 86-109 *)
setup ==
    \E start_col \in 2..(GRID_COLS - 3), start_row \in 1..(GRID_ROWS - 2) :
        LET s == << <<start_col, start_row>>,
                    <<start_col - 1, start_row>>,
                    <<start_col - 2, start_row>> >>
        IN  /\ score' = 0
            /\ level' = 1
            /\ game_over' = FALSE
            /\ snake' = s
            /\ direction' = <<1, 0>>
            /\ next_direction' = <<1, 0>>
            /\ food' \in spawn_food(s)
            /\ move_interval' = MOVE_INTERVAL_START
            /\ time_since_move' = 0

(* the scoring of an eaten food, lines 201 and 203: score += 1, then       *)
(* update_level_and_speed (lines 209-222)                                  *)
score_and_speed_up ==
    /\ score' = score + 1
    /\ level' = updated_level(score + 1, level)
    /\ move_interval' = updated_interval(updated_level(score + 1, level))

(* step_snake that inserts the new head only when it eats *)
step_snake_insert_on_food_only ==
    LET new_head == next_head(snake, next_direction)
        grown == <<new_head>> \o snake
    IN  /\ direction' = next_direction
        /\ UNCHANGED next_direction
        /\ IF ~in_grid(new_head)
           THEN /\ game_over' = TRUE
                /\ UNCHANGED <<snake, food, score, level, move_interval>>
           ELSE IF hits_self(new_head, snake)
           THEN /\ game_over' = TRUE
                /\ UNCHANGED <<snake, food, score, level, move_interval>>
           ELSE IF new_head = food
           THEN /\ snake' = grown
                /\ food' \in spawn_food(grown)
                /\ score_and_speed_up
                /\ UNCHANGED game_over
           ELSE /\ snake' = SubSeq(snake, 1, Len(snake) - 1)
                /\ UNCHANGED <<food, score, level, move_interval, game_over>>

(* step_snake that removes the tail after every move, eating or not *)
step_snake_always_pops ==
    LET new_head == next_head(snake, next_direction)
        grown == <<new_head>> \o snake
    IN  /\ direction' = next_direction
        /\ UNCHANGED next_direction
        /\ IF ~in_grid(new_head)
           THEN /\ game_over' = TRUE
                /\ UNCHANGED <<snake, food, score, level, move_interval>>
           ELSE IF hits_self(new_head, snake)
           THEN /\ game_over' = TRUE
                /\ UNCHANGED <<snake, food, score, level, move_interval>>
           ELSE IF new_head = food
           THEN /\ snake' = SubSeq(grown, 1, Len(grown) - 1)
                /\ food' \in spawn_food(grown)
                /\ score_and_speed_up
                /\ UNCHANGED game_over
           ELSE /\ snake' = SubSeq(grown, 1, Len(grown) - 1)
                /\ UNCHANGED <<food, score, level, move_interval, game_over>>

(* step_snake, lines 174-207 (time_since_move is left to on_update) *)
step_snake ==
    LET new_head == next_head(snake, next_direction)
        grown == <<new_head>> \o snake
    IN  /\ direction' = next_direction
        /\ UNCHANGED next_direction
        /\ IF ~in_grid(new_head)
           THEN /\ game_over' = TRUE
                /\ UNCHANGED <<snake, food, score, level, move_interval>>
           ELSE IF hits_self(new_head, snake)
           THEN /\ game_over' = TRUE
                /\ UNCHANGED <<snake, food, score, level, move_interval>>
           ELSE IF new_head = food
           THEN /\ snake' = grown
                /\ food' \in spawn_food(grown)
                /\ score_and_speed_up
                /\ UNCHANGED game_over
           ELSE /\ snake' = SubSeq(grown, 1, Len(grown) - 1)
                /\ UNCHANGED <<food, score, level, move_interval, game_over>>

(* on_update that takes the interval off the accumulated time *)
on_update_keeps_surplus(delta_time) ==
    IF game_over
    THEN UNCHANGED vars
    ELSE IF time_since_move + delta_time >= move_interval
         THEN /\ time_since_move' = time_since_move + delta_time - move_interval
              /\ step_snake
              /\ UNCHANGED pc
         ELSE /\ time_since_move' = time_since_move + delta_time
              /\ UNCHANGED <<pc, score, level, game_over, snake, direction,
                             next_direction, food, move_interval>>

(* on_update, lines 163-172 *)
on_update(delta_time) ==
    IF game_over
    THEN UNCHANGED vars
    ELSE IF time_since_move + delta_time >= move_interval
         THEN /\ time_since_move' = 0
              /\ step_snake
              /\ UNCHANGED pc
         ELSE /\ time_since_move' = time_since_move + delta_time
              /\ UNCHANGED <<pc, score, level, game_over, snake, direction,
                             next_direction, food, move_interval>>

(* try_set_direction that commits the direction at once *)
try_set_direction_commits(dx, dy) ==
    IF <<dx, dy>> = Neg(direction)
    THEN UNCHANGED vars
    ELSE /\ next_direction' = <<dx, dy>>
         /\ direction' = <<dx, dy>>
         /\ UNCHANGED <<pc, score, level, game_over, snake,
                        food, move_interval, time_since_move>>

(* try_set_direction that tests the reversal against the pending direction *)
try_set_direction_vs_pending(dx, dy) ==
    IF <<dx, dy>> = Neg(next_direction)
    THEN UNCHANGED vars
    ELSE /\ next_direction' = <<dx, dy>>
         /\ UNCHANGED <<pc, score, level, game_over, snake, direction,
                        food, move_interval, time_since_move>>

(* try_set_direction, lines 243-252 *)
try_set_direction(dx, dy) ==
    IF <<dx, dy>> = Neg(direction)
    THEN UNCHANGED vars
    ELSE /\ next_direction' = <<dx, dy>>
         /\ UNCHANGED <<pc, score, level, game_over, snake, direction,
                        food, move_interval, time_since_move>>

(* on_key_press in which any key restarts a finished game *)
on_key_press_any_key_restarts(key) ==
    IF key = "R" \/ game_over
    THEN setup /\ UNCHANGED pc
    ELSE CASE key = "UP"    -> try_set_direction(0, 1)
           [] key = "DOWN"  -> try_set_direction(0, -1)
           [] key = "LEFT"  -> try_set_direction(-1, 0)
           [] key = "RIGHT" -> try_set_direction(1, 0)
           [] OTHER         -> UNCHANGED vars

(* on_key_press that tests game_over before it looks at the key *)
on_key_press_game_over_first(key) ==
    IF game_over
    THEN UNCHANGED vars
    ELSE IF key = "R"
    THEN setup /\ UNCHANGED pc
    ELSE CASE key = "UP"    -> try_set_direction(0, 1)
           [] key = "DOWN"  -> try_set_direction(0, -1)
           [] key = "LEFT"  -> try_set_direction(-1, 0)
           [] key = "RIGHT" -> try_set_direction(1, 0)
           [] OTHER         -> UNCHANGED vars

(* on_key_press, lines 224-241 *)
on_key_press(key) ==
    IF key = "R"
    THEN setup /\ UNCHANGED pc
    ELSE IF game_over
    THEN UNCHANGED vars
    ELSE CASE key = "UP"    -> try_set_direction(0, 1)
           [] key = "DOWN"  -> try_set_direction(0, -1)
           [] key = "LEFT"  -> try_set_direction(-1, 0)
           [] key = "RIGHT" -> try_set_direction(1, 0)
           [] OTHER         -> UNCHANGED vars

----------------------------------------------------------------------------
(* main, lines 262-266: window.setup() runs before arcade.run() delivers   *)
(* any event.                                                              *)
MainSetup ==
    /\ pc = "constructed"
    /\ setup
    /\ pc' = "running"

(* arcade.run(): one frame update with some delta_time *)
Update ==
    /\ pc = "running"
    /\ \E delta_time \in DeltaTimes : on_update(delta_time)
    /\ score' <= MaxScore

(* arcade.run(): one key event *)
KeyPress ==
    /\ pc = "running"
    /\ \E key \in Keys : on_key_press(key)

Next == MainSetup \/ Update \/ KeyPress

Spec == Init /\ [][Next]_vars

----------------------------------------------------------------------------
(* The same game with the feeding stopped at ShortScore, for the step      *)
(* properties that do not depend on the level.                             *)
UpdateShort ==
    /\ pc = "running"
    /\ \E delta_time \in DeltaTimes : on_update(delta_time)
    /\ score' <= ShortScore

NextShort == MainSetup \/ UpdateShort \/ KeyPress

SpecShort == Init /\ [][NextShort]_vars

----------------------------------------------------------------------------
(* The difficulty computation on its own.  update_level_and_speed reads    *)
(* only score and level, and the game calls it once per point scored; the  *)
(* 40 x 27 grid of the source lets the score pass every level boundary.    *)
(* Here each Feed step is the scoring of one eaten food without the move   *)
(* that leads to it, so that the score runs up to MaxFeed; a restart puts  *)
(* it back to 0.                                                           *)
Feed ==
    /\ pc = "running"
    /\ ~game_over
    /\ score < MaxFeed
    /\ score_and_speed_up
    /\ UNCHANGED <<pc, game_over, snake, direction, next_direction, food,
                   time_since_move>>

Restart ==
    /\ pc = "running"
    /\ on_key_press("R")

NextDifficulty == MainSetup \/ Feed \/ Restart

SpecDifficulty == Init /\ [][NextDifficulty]_vars

----------------------------------------------------------------------------
(* The retry loop of random_grid_position, lines 46-58, as spawn_food      *)
(* runs it from step_snake (line 202): the snake has just grown onto the   *)
(* food, score is already counted, level and move_interval are still those *)
(* of the score before.  pc is "spawn_food" while the loop runs and        *)
(* "spawn_returned" once line 114 has stored the cell in food.             *)

(* the cells of the grid in boustrophedon order, from <<0, 0>> *)
NumCells == GRID_COLS * GRID_ROWS
Serpentine(i) ==
    LET row == (i - 1) \div GRID_COLS
        k == (i - 1) % GRID_COLS
    IN  <<IF row % 2 = 0 THEN k ELSE GRID_COLS - 1 - k, row>>

(* snakes of 4 and more segments lying along that order, head last; the    *)
(* longest fills the grid and leaves the loop no cell to return            *)
SpawnSnakes ==
    UNION {{[n \in 1..(j - i + 1) |-> Serpentine(j + 1 - n)] :
                j \in (i + 3)..NumCells} : i \in 1..NumCells}

InitSpawn ==
    /\ pc = "spawn_food"
    /\ snake \in SpawnSnakes
    /\ food = snake[1]
    /\ score = Len(snake) - 3
    /\ level = 1 + ((Len(snake) - 4) \div 5)
    /\ move_interval = updated_interval(level)
    /\ game_over = FALSE
    /\ direction = <<snake[1][1] - snake[2][1], snake[1][2] - snake[2][2]>>
    /\ next_direction = direction
    /\ time_since_move = 0

(* one pass through the loop body: draw a cell, return it if it is free    *)
(* and below the UI strip (lines 57-58, then line 114), else go round      *)
(* again with nothing changed                                              *)
SpawnIteration ==
    /\ pc = "spawn_food"
    /\ \E pos \in GridCells :
           IF pos \notin Range(snake) /\ screen_y(pos) < ui_boundary
           THEN /\ food' = pos
                /\ pc' = "spawn_returned"
                /\ UNCHANGED <<score, level, game_over, snake, direction,
                               next_direction, move_interval, time_since_move>>
           ELSE UNCHANGED vars

NextSpawn == SpawnIteration

(* random.randrange draws every cell with the same positive probability on *)
(* every pass, so a pass that can return a cell is not put off for ever    *)
SpecSpawn == InitSpawn /\ [][NextSpawn]_vars /\ WF_vars(SpawnIteration)

----------------------------------------------------------------------------
(* Properties *)

(* the direction a direction key asks for (spec 4.1, setDirection) *)
DirKeys == {"UP", "DOWN", "LEFT", "RIGHT"}
Requested(key) ==
    CASE key = "UP"    -> <<0, 1>>
      [] key = "DOWN"  -> <<0, -1>>
      [] key = "LEFT"  -> <<-1, 0>>
      [] key = "RIGHT" -> <<1, 0>>

(* C1: in every reachable state the food cell is on no snake segment and   *)
(* is outside the reserved UI strip: its row is in 0..GRID_ROWS-1 and its  *)
(* screen y is below SCREEN_HEIGHT - UI_HEIGHT.                            *)
C1_FoodFree ==
    /\ \A i \in 1..Len(snake) : snake[i] # food
    /\ food[2] \in 0..(GRID_ROWS - 1)
    /\ food[2] * CELL_SIZE + CELL_SIZE \div 2 < SCREEN_HEIGHT - UI_HEIGHT

(* a game in which food was eaten and placed again next to a grown snake *)
C1_Witness ==
    /\ pc = "running"
    /\ score >= 2
    /\ ~game_over
    /\ Len(snake) >= 5

(* C2: in every reachable state in which game_over is false, the snake     *)
(* holds no position twice.                                                *)
C2_NoDuplicates ==
    ~game_over =>
        \A i, j \in 1..Len(snake) : i # j => snake[i] # snake[j]

(* a running game in which the head is beside a segment of its own body    *)
(* other than the neck, so that one turn would run into it                 *)
C2_Witness ==
    /\ pc = "running"
    /\ ~game_over
    /\ \E i \in 3..Len(snake) :
           \E d \in {<<1, 0>>, <<-1, 0>>, <<0, 1>>, <<0, -1>>} :
               /\ d # Neg(direction)
               /\ <<snake[1][1] + d[1], snake[1][2] + d[2]>> = snake[i]

(* C3: once game_over is true, every on_update tick (any delta_time) and   *)
(* every key press other than R leaves snake, food, score and level as     *)
(* they are.                                                               *)
C3_FrozenAfterGameOver ==
    [][game_over =>
         /\ \A delta_time \in DeltaTimes :
                on_update(delta_time) => UNCHANGED <<snake, food, score, level>>
         /\ \A key \in Keys \ {"R"} :
                on_key_press(key) => UNCHANGED <<snake, food, score, level>>]_vars

(* a finished game in which points had been scored *)
C3_Witness ==
    /\ game_over
    /\ score >= 1
    /\ next_direction = direction

(* C4: a direction key press changes nothing at all when the requested     *)
(* direction is the opposite of the committed direction or game_over is    *)
(* true; otherwise it sets next_direction to the requested direction and   *)
(* changes nothing else.                                                   *)
C4_DirectionKeyEffect ==
    [][\A key \in DirKeys :
         on_key_press(key) =>
             IF game_over \/ Requested(key) = <<0 - direction[1], 0 - direction[2]>>
             THEN UNCHANGED vars
             ELSE /\ next_direction' = Requested(key)
                  /\ UNCHANGED <<pc, score, level, game_over, snake, direction,
                                 food, move_interval, time_since_move>>]_vars

(* a running game with an accepted turn pending *)
C4_Witness ==
    /\ ~game_over
    /\ pc = "running"
    /\ next_direction # direction

(* C5: in every reachable state next_direction is not the opposite of     *)
(* direction, so the direction the next advance commits is never the       *)
(* reverse of the one committed before, whatever keys were pressed.        *)
C5_NoReversal ==
    next_direction # <<0 - direction[1], 0 - direction[2]>>

(* a turn has been committed and another turn is pending *)
C5_Witness ==
    /\ ~game_over
    /\ direction # <<1, 0>>
    /\ next_direction # direction

(* a reset: the R key, or the call of setup in main *)
ResetStep == on_key_press("R") \/ MainSetup

(* C6: in every reachable state level = 1 + score // 5. *)
C6_LevelFromScore ==
    level = 1 + (score \div 5)

(* the fifth point has been scored and the level has risen *)
C6_Witness ==
    /\ score = 5
    /\ level = 2
    /\ Len(snake) = 8

(* C7: in every reachable state move_interval is 0.20 - (level - 1) * 0.02 *)
(* clamped to [0.06, 0.20], in hundredths of a second; score 5 gives level *)
(* 2 and interval 0.18; from level 8 on the interval is 0.06.              *)
C7_IntervalFromLevel ==
    /\ LET target == 20 - (level - 1) * 2
       IN  move_interval = IF target < 6 THEN 6
                           ELSE IF target > 20 THEN 20 ELSE target
    /\ 6 <= move_interval /\ move_interval <= 20
    /\ score = 5 => level = 2 /\ move_interval = 18
    /\ level >= 8 => move_interval = 6

(* a level at which the lower limit of the clamp decides the interval *)
C7_Witness ==
    /\ level >= 9
    /\ move_interval = 6

(* C8: every reset sets score to 0; every other step leaves score as it    *)
(* is or, in an advance whose new head is the food, adds exactly 1.        *)
C8_ScoreSteps ==
    [][/\ score' = 0 \/ ~ResetStep
       /\ \/ score' = score
          \/ /\ score' = score + 1
             /\ ~game_over
             /\ <<snake[1][1] + next_direction[1],
                   snake[1][2] + next_direction[2]>> = food
             /\ \E delta_time \in DeltaTimes :
                    /\ time_since_move + delta_time >= move_interval
                    /\ on_update(delta_time)
          \/ score' = 0 /\ ResetStep]_vars

(* a running game in which food has been eaten twice *)
C8_Witness ==
    /\ pc = "running"
    /\ score >= 2

(* C9: no step other than a reset makes move_interval larger. *)
C9_IntervalNeverGrows ==
    [][move_interval' <= move_interval \/ ResetStep]_vars

(* an advance has shortened the interval *)
C9_Witness ==
    /\ pc = "running"
    /\ move_interval < 20
    /\ score >= 5

(* C10: an advance whose new head (head + pending direction, committed by  *)
(* this advance) is outside the grid sets game_over and leaves snake,      *)
(* food, score, level and move_interval as they were.                      *)
C10_WallCollision ==
    [][(/\ pc = "running"
        /\ ~game_over
        /\ LET col == snake[1][1] + next_direction[1]
               row == snake[1][2] + next_direction[2]
           IN  ~(0 <= col /\ col < GRID_COLS /\ 0 <= row /\ row < GRID_ROWS))
       => \A delta_time \in DeltaTimes :
              (time_since_move + delta_time >= move_interval /\ on_update(delta_time))
              => /\ game_over'
                 /\ UNCHANGED <<snake, food, score, level, move_interval>>]_vars

(* a game that ended with the head at a wall and facing it *)
C10_Witness ==
    /\ game_over
    /\ LET col == snake[1][1] + direction[1]
           row == snake[1][2] + direction[2]
       IN  ~(0 <= col /\ col < GRID_COLS /\ 0 <= row /\ row < GRID_ROWS)


(* the state the spec asks of reset: score 0, level 1, not over, interval  *)
(* 0.20, no accumulated time, facing right with nothing else pending, a    *)
(* horizontal snake of 3 segments inside the grid, food on none of them    *)
FreshGame ==
    /\ score = 0
    /\ level = 1
    /\ game_over = FALSE
    /\ move_interval = 20
    /\ time_since_move = 0
    /\ direction = <<1, 0>>
    /\ next_direction = <<1, 0>>
    /\ Len(snake) = 3
    /\ snake[2] = <<snake[1][1] - 1, snake[1][2]>>
    /\ snake[3] = <<snake[1][1] - 2, snake[1][2]>>
    /\ \A i \in 1..3 :
           /\ 0 <= snake[i][1] /\ snake[i][1] < GRID_COLS
           /\ 0 <= snake[i][2] /\ snake[i][2] < GRID_ROWS
    /\ \A i \in 1..3 : food # snake[i]

(* C11: every reset, from whatever state (mid-game, game over, or fresh    *)
(* from another reset), ends in a fresh game; nothing of the state before  *)
(* carries over.                                                           *)
C11_ResetIsFresh ==
    [][FreshGame' \/ ~ResetStep]_vars

(* a fresh game after a reset, with the food in another row than the snake *)
C11_Witness ==
    /\ pc = "running"
    /\ FreshGame
    /\ food[2] # snake[1][2]


(* C12 as stated: in every reachable state in which game_over is false,    *)
(* the snake has at least one segment.  The state __init__ leaves (lines   *)
(* 72 and 75) has game_over false and an empty snake.                      *)
C12_AsStated ==
    ~game_over => Len(snake) >= 1

(* C12, amended: in every state reachable once setup has run, if game_over *)
(* is false the snake has at least one segment.                            *)
C12_NonEmptyAfterSetup ==
    (pc = "running" /\ ~game_over) => Len(snake) >= 1

(* a running game whose snake has moved away from where setup put it *)
C12_Witness ==
    /\ pc = "running"
    /\ ~game_over
    /\ Len(snake) = 3
    /\ snake[1][2] # snake[3][2]


(* the cell an advance moves the head to: head + pending direction, which  *)
(* the advance commits first                                               *)
NewHead == <<snake[1][1] + next_direction[1], snake[1][2] + next_direction[2]>>
NewHeadInGrid ==
    /\ 0 <= NewHead[1] /\ NewHead[1] < GRID_COLS
    /\ 0 <= NewHead[2] /\ NewHead[2] < GRID_ROWS
NewHeadOnSnake == \E i \in 1..Len(snake) : snake[i] = NewHead

(* an on_update call that advances: the accumulated time reaches the interval *)
Advance(delta_time) ==
    /\ pc = "running"
    /\ ~game_over
    /\ time_since_move + delta_time >= move_interval
    /\ on_update(delta_time)

(* C13: an advance whose new head is inside the grid and on the food puts  *)
(* the new head in front of all old segments (no tail removed), adds 1 to  *)
(* score, moves the food to another cell off the grown snake, and sets     *)
(* level and move_interval from the new score.                             *)
C13_EatingAdvance ==
    [][(pc = "running" /\ ~game_over /\ NewHeadInGrid /\ NewHead = food)
       => \A delta_time \in DeltaTimes :
              Advance(delta_time)
              => /\ snake' = <<NewHead>> \o snake
                 /\ score' = score + 1
                 /\ food' # food
                 /\ \A i \in 1..Len(snake') : snake'[i] # food'
                 /\ level' = 1 + (score' \div 5)
                 /\ LET target == 20 - (level' - 1) * 2
                    IN  move_interval' = IF target < 6 THEN 6
                                         ELSE IF target > 20 THEN 20 ELSE target
                 /\ ~game_over']_vars

(* the fifth food has just been eaten: level 2, interval 0.18 *)
C13_Witness ==
    /\ score = 5
    /\ level = 2
    /\ move_interval = 18
    /\ time_since_move = 0
    /\ ~game_over

(* C14: an advance whose new head is on any segment of the snake as it is  *)
(* before the move, the tail included, sets game_over and leaves the snake *)
(* as it is.                                                               *)
C14_SelfCollision ==
    [][(pc = "running" /\ ~game_over /\ NewHeadOnSnake)
       => \A delta_time \in DeltaTimes :
              Advance(delta_time) => game_over' /\ UNCHANGED snake]_vars

(* a game that ended with the head running into the cell of its own tail *)
C14_Witness ==
    /\ game_over
    /\ Len(snake) >= 4
    /\ <<snake[1][1] + direction[1], snake[1][2] + direction[2]>>
           = snake[Len(snake)]

(* C15: an advance whose new head is inside the grid, on no segment and    *)
(* not on the food gives [new head] + snake without its last segment and   *)
(* leaves food, score, level, move_interval and game_over as they are.     *)
C15_PlainMove ==
    [][(/\ pc = "running" /\ ~game_over
        /\ NewHeadInGrid /\ ~NewHeadOnSnake /\ NewHead # food)
       => \A delta_time \in DeltaTimes :
              Advance(delta_time)
              => /\ snake' = <<NewHead>> \o SubSeq(snake, 1, Len(snake) - 1)
                 /\ Len(snake') = Len(snake)
                 /\ UNCHANGED <<food, score, level, move_interval, game_over>>]_vars

(* a snake of the first length that has turned and moved on *)
C15_Witness ==
    /\ pc = "running"
    /\ ~game_over
    /\ score = 0
    /\ direction # <<1, 0>>
    /\ snake[1] = <<snake[2][1] + direction[1], snake[2][2] + direction[2]>>
    /\ time_since_move = 0


(* C16: game_over turns true only in an advance whose new head is outside  *)
(* the grid or on the snake as it is before the move, and in every such    *)
(* advance; it turns false only in a reset, and in every finished game the *)
(* R key is accepted and starts a game that is not over.                   *)
C16_GameOverTransitions ==
    /\ []((pc = "running" /\ game_over)
            => ENABLED (on_key_press("R") /\ ~game_over'))
    /\ [][/\ (~game_over /\ game_over')
              => /\ pc = "running"
                 /\ ~NewHeadInGrid \/ NewHeadOnSnake
                 /\ \E delta_time \in DeltaTimes : Advance(delta_time)
          /\ (pc = "running" /\ ~game_over /\ (~NewHeadInGrid \/ NewHeadOnSnake))
              => \A delta_time \in DeltaTimes : Advance(delta_time) => game_over'
          /\ (game_over /\ ~game_over') => ResetStep]_vars

(* a game that ended on a segment of the body other than the tail *)
C16_Witness ==
    /\ game_over
    /\ \E i \in 2..(Len(snake) - 1) :
           snake[i] = <<snake[1][1] + direction[1], snake[1][2] + direction[2]>>

(* C17: an on_update call while the game is not over either adds           *)
(* delta_time to the accumulated time and does nothing else (the sum is    *)
(* below move_interval), or performs one advance, one cell at most, and    *)
(* leaves the accumulated time at exactly 0, however large delta_time is.  *)
C17_OneAdvancePerUpdate ==
    [][\A delta_time \in DeltaTimes :
         (pc = "running" /\ ~game_over /\ on_update(delta_time))
         => IF time_since_move + delta_time >= move_interval
            THEN /\ time_since_move' = 0
                 /\ direction' = next_direction
                 /\ \/ game_over' /\ snake' = snake
                    \/ /\ ~game_over'
                       /\ snake'[1] = NewHead
                       /\ Len(snake') \in {Len(snake), Len(snake) + 1}
                       /\ \A i \in 2..Len(snake') : snake'[i] = snake[i - 1]
            ELSE /\ time_since_move' = time_since_move + delta_time
                 /\ UNCHANGED <<pc, score, level, game_over, snake, direction,
                                next_direction, food, move_interval>>]_vars

(* time has accumulated without an advance *)
C17_Witness ==
    /\ pc = "running"
    /\ ~game_over
    /\ time_since_move = DeltaShort
    /\ DeltaLong >= 2 * move_interval


(* C19: in every state reachable once setup has run, game over or not,     *)
(* the snake has 3 + score segments.                                       *)
C19_LengthFromScore ==
    pc = "running" => Len(snake) = 3 + score

(* a finished game in which the snake had grown *)
C19_Witness ==
    /\ pc = "running"
    /\ game_over
    /\ score >= 2
    /\ Len(snake) = 3 + score

(* C20: in every state reachable once setup has run in which game_over is  *)
(* false, the head is the second segment plus the committed direction, and *)
(* any two consecutive segments are one cell apart along one axis; so the  *)
(* cell behind the head, where a reversal would lead, is the neck.         *)
C20_HeadFollowsDirection ==
    (pc = "running" /\ ~game_over) =>
        /\ Len(snake) >= 2
        /\ snake[1] = <<snake[2][1] + direction[1], snake[2][2] + direction[2]>>
        /\ \A i \in 1..(Len(snake) - 1) :
               LET dc == snake[i][1] - snake[i + 1][1]
                   dr == snake[i][2] - snake[i + 1][2]
               IN  <<dc, dr>> \in {<<1, 0>>, <<-1, 0>>, <<0, 1>>, <<0, -1>>}
        /\ <<snake[1][1] - direction[1], snake[1][2] - direction[2]>> = snake[2]

(* a grown snake with a bend in it, moving down or up *)
C20_Witness ==
    /\ pc = "running"
    /\ ~game_over
    /\ Len(snake) >= 4
    /\ direction[2] # 0
    /\ snake[3][2] = snake[4][2]


(* C18: when some grid cell is not on the snake, the retry loop of         *)
(* spawn_food returns in the end (each cell being drawn again and again),  *)
(* and the cell it stores in food is inside the grid and not on the snake. *)
C18_SpawnReturns ==
    /\ [](pc = "spawn_returned"
            => /\ 0 <= food[1] /\ food[1] < GRID_COLS
               /\ 0 <= food[2] /\ food[2] < GRID_ROWS
               /\ \A i \in 1..Len(snake) : snake[i] # food)
    /\ (/\ pc = "spawn_food"
        /\ \E c \in 0..(GRID_COLS - 1), r \in 0..(GRID_ROWS - 1) :
               \A i \in 1..Len(snake) : snake[i] # <<c, r>>)
           ~> (pc = "spawn_returned")

(* the loop has returned the one cell a snake had left free *)
C18_Witness ==
    /\ pc = "spawn_returned"
    /\ Len(snake) = GRID_COLS * GRID_ROWS - 1

====
